---- MODULE Spec2Model ----
(***************************************************************************)
(* A model of tr45h: the SymbolTable with its debounced, asynchronous      *)
(* sound resolution (src/src/interpreter/symbols.js), the AST automaton    *)
(* (Terminal / Sequence / Choice, same file) and the Scheduler             *)
(* (src/src/A0/lang/runtime/scheduler/index.js).                           *)
(*                                                                         *)
(* JavaScript runs every handler to completion, so each handler and each   *)
(* continuation of an async function (the code between two awaits) is one  *)
(* action; the suspension points are the places where actions interleave.  *)
(***************************************************************************)
EXTENDS Integers, Sequences, FiniteSets, TLC

VARIABLES
  \* ---- SymbolTable ----
  symbols,                  \* this.symbols: identifier -> record
  activeIdentifiersByBlock, \* this.activeIdentifiersByBlock: block key -> identifiers
  timeouts,                 \* pending setTimeout(_fetchNewSound) callbacks, per identifier
  fetches,                  \* suspended _fetchNewSound calls, per identifier and await
  visual,                   \* status classes added to the identifier's elements
  symLast,                  \* history: the last SymbolTable operation and the keys before it
  \* ---- AST automaton ----
  root,                     \* the AST node under advancement, with its children
  astLast,                  \* history: advances of root so far, the last return value
  \* ---- Scheduler ----
  isPlaying,                \* this.isPlaying
  isPaused,                 \* this.isPaused
  isRecording,              \* this.isRecording
  bpm,                      \* this.bpm: [current, next]
  timerFn,                  \* this.timerFn: the id setInterval returned, or null
  intervals,                \* the interval timers that are active
  threads,                  \* this.threads: key -> Thread
  contextState,             \* this.audio.context.state
  gain,                     \* this.audio.output.main.gain.value
  recorderCalls,            \* the calls made on this.audio.recorder, in order
  promises,                 \* the recorder promises not yet resolved
  sweep,                    \* the tick in progress: the Threads of its loop and those run
  schedLast,                \* history: the last Scheduler handler and what it called
  \* ---- FirstPassParser ----
  parser                    \* the token stream analyze was given and what became of it

symVars == <<symbols, activeIdentifiersByBlock, timeouts, fetches, visual, symLast>>
astVars == <<root, astLast>>
schedVars == <<isPlaying, isPaused, isRecording, bpm, timerFn, intervals, threads,
               contextState, gain, recorderCalls, promises, sweep, schedLast>>

parseVars == <<parser>>

vars == <<symVars, astVars, schedVars, parseVars>>

----------------------------------------------------------------------------
(* Values *)

Null == "null"

Identifiers == {"kick", "snare"}
Blocks      == {"b1", "b2"}
Statuses    == {"searching", "downloading", "available", "unavailable"}
Awaits      == {"lookup", "download", "decode"}

\* how many resolutions of one identifier may be scheduled or running at a time
MaxPending == 2
\* the longest token list of a lexicon
MaxTokens == 1

\* {...fields, ...symbol}: the fields of both, symbol's values winning
Spread(fields, symbol) ==
  [k \in DOMAIN fields \cup DOMAIN symbol |->
     IF k \in DOMAIN symbol THEN symbol[k] ELSE fields[k]]

DefaultFields == [type |-> Null, status |-> Null, value |-> Null]

Plus(f, k) == [f EXCEPT ![k] = @ + 1]

----------------------------------------------------------------------------
(* SymbolTable *)

\* merge, line 82: the condition under which a resolution is scheduled
isNewSound_EverySound(exists, symbol) ==
  "type" \in DOMAIN symbol /\ symbol.type = "sound"

isNewSound(exists, symbol) ==
  ~exists /\ "type" \in DOMAIN symbol /\ symbol.type # Null /\ symbol.type = "sound"

\* merge(symbol) on the state st = [symbols, timeouts, ...]
merge_DropsOtherFields(st, symbol) ==
  LET id     == symbol.identifier
      exists == id \in DOMAIN st.symbols
      merged == Spread(DefaultFields, symbol)
  IN [st EXCEPT
        !.symbols  = [i \in DOMAIN st.symbols \cup {id} |->
                        IF i = id THEN merged ELSE st.symbols[i]],
        !.timeouts = IF isNewSound(exists, symbol) THEN Plus(@, id) ELSE @]

merge(st, symbol) ==
  LET id     == symbol.identifier
      exists == id \in DOMAIN st.symbols
      fields == IF exists THEN st.symbols[id] ELSE DefaultFields
      merged == Spread(fields, symbol)
  IN [st EXCEPT
        !.symbols  = [i \in DOMAIN st.symbols \cup {id} |->
                        IF i = id THEN merged ELSE st.symbols[i]],
        !.timeouts = IF isNewSound(exists, symbol) THEN Plus(@, id) ELSE @]

\* remove(identifier): delete this.symbols[identifier]
remove(st, identifier) ==
  [st EXCEPT !.symbols = [i \in DOMAIN st.symbols \ {identifier} |-> st.symbols[i]]]

\* updateVisualStatus(identifier, status): the status class last added to the
\* identifier's elements
updateVisualStatus(st, identifier, status) ==
  [st EXCEPT !.visual[identifier] = status]

\* _fetchNewSound, lines 97-111: the call made when the debounce timeout fires,
\* up to its first await (the remote lookup)
fetchNewSound_NoExistenceCheck(st, identifier) ==
  LET searching == updateVisualStatus(
                     merge(st, [identifier |-> identifier, status |-> "searching"]),
                     identifier, "searching")
  IN [searching EXCEPT !.fetches[identifier]["lookup"] = @ + 1]

fetchNewSound(st, identifier) ==
  IF ~(identifier \in DOMAIN st.symbols)
  THEN st
  ELSE LET searching == updateVisualStatus(
                          merge(st, [identifier |-> identifier, status |-> "searching"]),
                          identifier, "searching")
       IN [searching EXCEPT !.fetches[identifier]["lookup"] = @ + 1]

\* what the lookup can answer: no results field, an empty list, some results
Results == {"undefined", "empty", "some"}

\* _fetchNewSound, lines 112-138: the continuation after the lookup, up to the
\* await of the preview download
onResults(st, identifier, results) ==
  LET resumed == [st EXCEPT !.fetches[identifier]["lookup"] = @ - 1]
  IN IF results = "undefined" \/ results = "empty"
     THEN updateVisualStatus(
            merge(resumed, [identifier |-> identifier, status |-> "unavailable"]),
            identifier, "unavailable")
     ELSE LET downloading == updateVisualStatus(
                merge(resumed, [identifier |-> identifier, status |-> "downloading"]),
                identifier, "downloading")
          IN [downloading EXCEPT !.fetches[identifier]["download"] = @ + 1]

\* _fetchNewSound, lines 138-143: the preview arrived, decodeAudioData is awaited
onBuffer(st, identifier) ==
  [st EXCEPT !.fetches[identifier]["download"] = @ - 1,
             !.fetches[identifier]["decode"] = @ + 1]

\* _fetchNewSound, lines 141-149: the decoded sample is merged
onDecoded(st, identifier, value) ==
  LET resumed == [st EXCEPT !.fetches[identifier]["decode"] = @ - 1]
  IN updateVisualStatus(
       merge(resumed, [identifier |-> identifier, value |-> value, status |-> "available"]),
       identifier, "available")

\* an awaited promise rejects: the async function ends there, nothing catches it
onRejected(st, identifier, await) ==
  [st EXCEPT !.fetches[identifier][await] = @ - 1]

\* the lexical tokens of a block, and the lexicons handed to updateActiveIdentifiers
LexicalTokens ==
  {[type |-> "IDENTIFIER", value |-> i] : i \in Identifiers}
    \cup {[type |-> "COMMENT", value |-> "kick"]}

TokenLists(n) == UNION {[1..k -> LexicalTokens] : k \in 0..n}

Lexicons ==
  [tokens : TokenLists(MaxTokens),
   errors : {<< >>} \cup {<<[tokens |-> ts]>> : ts \in TokenLists(1)}]

Range(f) == {f[x] : x \in DOMAIN f}

\* lines 43-46: the identifiers of the tokens and of the tokens of the errors
identifiersOf(lexicon) ==
  {t.value : t \in {u \in Range(lexicon.tokens) : u.type = "IDENTIFIER"}}
    \cup {t.value : t \in {u \in UNION {Range(e.tokens) : e \in Range(lexicon.errors)} :
                             u.type = "IDENTIFIER"}}

\* lodash xor and intersection, on arrays without duplicates
xor(a, b)          == (a \ b) \cup (b \ a)
intersection(a, b) == a \cap b

\* lines 48-51: the identifiers of the table that no block references
danglingIdentifiers_ThisBlockOnly(byBlock, table, blockKey) ==
  intersection(xor(DOMAIN table, byBlock[blockKey]), DOMAIN table)

danglingIdentifiers(byBlock, table, blockKey) ==
  LET allActiveIdentifiers     == UNION {byBlock[b] : b \in DOMAIN byBlock}
      identifiersInSymbolTable == DOMAIN table
  IN intersection(xor(identifiersInSymbolTable, allActiveIdentifiers),
                  identifiersInSymbolTable)

RECURSIVE removeAll(_, _)
removeAll(st, ids) ==
  IF ids = {} THEN st
  ELSE LET i == CHOOSE x \in ids : TRUE
       IN removeAll(remove(st, i), ids \ {i})

\* updateActiveIdentifiers(blockKey, lexicon)
updateActiveIdentifiers(st, blockKey, lexicon) ==
  LET byBlock == [b \in DOMAIN st.activeIdentifiersByBlock \cup {blockKey} |->
                    IF b = blockKey THEN identifiersOf(lexicon)
                    ELSE st.activeIdentifiersByBlock[b]]
      updated == [st EXCEPT !.activeIdentifiersByBlock = byBlock]
  IN removeAll(updated, danglingIdentifiers(byBlock, st.symbols, blockKey))

\* the state the operators above work on
SymState ==
  [symbols |-> symbols, timeouts |-> timeouts, fetches |-> fetches,
   visual |-> visual, activeIdentifiersByBlock |-> activeIdentifiersByBlock]

SymSet(st, op, id) ==
  /\ symbols' = st.symbols
  /\ timeouts' = st.timeouts
  /\ fetches' = st.fetches
  /\ visual' = st.visual
  /\ activeIdentifiersByBlock' = st.activeIdentifiersByBlock
  /\ symLast' = [op |-> op, id |-> id, keys |-> DOMAIN symbols]
  /\ UNCHANGED <<astVars, schedVars, parseVars>>

\* the resolutions of an identifier that are scheduled or running
pending(identifier) ==
  timeouts[identifier] + fetches[identifier]["lookup"]
    + fetches[identifier]["download"] + fetches[identifier]["decode"]

\* the records the analyzer merges: kick is written as a sound literal or used as
\* a variable, snare is a variable
MergeInputs ==
  { [identifier |-> "kick", type |-> "sound"],
    [identifier |-> "kick", type |-> "variable"],
    [identifier |-> "snare", type |-> "variable"],
    [identifier |-> "snare", value |-> "v"] }

\* the analyzer declares or references an identifier
Merge(symbol) ==
  /\ isNewSound(symbol.identifier \in DOMAIN symbols, symbol)
       => pending(symbol.identifier) < MaxPending
  /\ SymSet(merge(SymState, symbol), "merge", symbol.identifier)

\* remove(identifier), called from outside the table
Remove(identifier) ==
  /\ identifier \in Identifiers
  /\ SymSet(remove(SymState, identifier), "remove", identifier)

\* a block was analyzed again
UpdateActiveIdentifiers(blockKey, lexicon) ==
  /\ blockKey \in Blocks
  /\ SymSet(updateActiveIdentifiers(SymState, blockKey, lexicon), "update", blockKey)

\* a debounce timeout fires
FireTimeout(identifier) ==
  /\ timeouts[identifier] > 0
  /\ SymSet(fetchNewSound([SymState EXCEPT !.timeouts[identifier] = @ - 1], identifier),
            "fire", identifier)

\* the remote lookup answers
LookupDone(identifier, results) ==
  /\ fetches[identifier]["lookup"] > 0
  /\ SymSet(onResults(SymState, identifier, results), "results", identifier)

\* the preview download completes
DownloadDone(identifier) ==
  /\ fetches[identifier]["download"] > 0
  /\ SymSet(onBuffer(SymState, identifier), "buffer", identifier)

\* the sample is decoded
DecodeDone(identifier) ==
  /\ fetches[identifier]["decode"] > 0
  /\ SymSet(onDecoded(SymState, identifier, "sample"), "decoded", identifier)

\* the lookup, the download or the decoding fails
Rejected(identifier, await) ==
  /\ fetches[identifier][await] > 0
  /\ SymSet(onRejected(SymState, identifier, await), "rejected", identifier)

SymInit ==
  /\ symbols = << >>
  /\ activeIdentifiersByBlock = << >>
  /\ timeouts = [i \in Identifiers |-> 0]
  /\ fetches = [i \in Identifiers |-> [a \in Awaits |-> 0]]
  /\ visual = [i \in Identifiers |-> Null]
  /\ symLast = [op |-> "new", id |-> Null, keys |-> {}]

\* no AST has been constructed
AstInit ==
  /\ root = [kind |-> "None"]
  /\ astLast = [n |-> 0, ret |-> FALSE, threw |-> FALSE, shape |-> [kind |-> "None"]]

\* the Scheduler as its constructor leaves it, lines 13-112
InitialBpm == 128
\* this.timerFn = null; the ids setInterval returns are positive
NoTimer == 0
\* no tick is in progress
NoSweep == [active |-> FALSE, bound |-> {}, ran |-> {}]

SchedInit ==
  /\ isPlaying = TRUE
  /\ isPaused = FALSE
  /\ isRecording = FALSE
  /\ bpm = [current |-> InitialBpm, next |-> InitialBpm]
  /\ timerFn = NoTimer
  /\ intervals = {}
  /\ threads = << >>
  /\ contextState = "suspended"
  /\ gain = 0
  /\ recorderCalls = << >>
  /\ promises = [start |-> 0, stop |-> 0]
  /\ sweep = NoSweep
  /\ schedLast = [op |-> "new", arg |-> Null, calls |-> {}, timerBefore |-> NoTimer,
                  moved |-> FALSE, ran |-> << >>]

\* the FirstPassParser as its constructor leaves it, lines 20-27 of
\* src/unnamed/part_000: no stream, no result
ParseInit ==
  parser = [stream |-> << >>, lexErrors |-> << >>, index |-> 0, tokens |-> << >>,
            errors |-> << >>, outcome |-> "new"]

Init == SymInit /\ AstInit /\ SchedInit /\ ParseInit

SymNext ==
  \/ \E symbol \in MergeInputs : Merge(symbol)
  \/ \E id \in Identifiers : Remove(id)
  \/ \E id \in Identifiers : FireTimeout(id)
  \/ \E id \in Identifiers, results \in Results : LookupDone(id, results)
  \/ \E id \in Identifiers : DownloadDone(id)
  \/ \E id \in Identifiers : DecodeDone(id)
  \/ \E id \in Identifiers, await \in Awaits : Rejected(id, await)

SpecSym == Init /\ [][SymNext]_vars

\* the analysis path alone: merges and the pruning after each analysis of a block
PruneNext ==
  \/ \E symbol \in MergeInputs : Merge(symbol)
  \/ \E b \in Blocks, lexicon \in Lexicons : UpdateActiveIdentifiers(b, lexicon)

SpecPrune == Init /\ [][PruneNext]_vars
----------------------------------------------------------------------------
(* SymbolTable: claims *)

\* C1: a resolution whose identifier was removed while it was in flight is
\* discarded: a resolution write (the commit of the lookup's answer or of the
\* decoded sample) that finds the identifier gone from the table leaves it gone.
C1_StaleResolutionDiscarded ==
  (symLast.op \in {"results", "decoded"} /\ symLast.id \notin symLast.keys)
    => symLast.id \notin DOMAIN symbols

\* C2: a merge of an identifier that is already in the table schedules and starts
\* no resolution; the merge that creates a sound identifier schedules exactly one;
\* and each timeout that fires is consumed and starts at most one remote lookup.
C2_OneResolutionPerNewSound ==
  [][ /\ \A symbol \in MergeInputs :
           Merge(symbol) =>
             LET id == symbol.identifier
             IN /\ fetches' = fetches
                /\ id \in DOMAIN symbols => timeouts' = timeouts
                /\ (id \notin DOMAIN symbols /\ "type" \in DOMAIN symbol
                      /\ symbol.type = "sound")
                     => timeouts' = [timeouts EXCEPT ![id] = @ + 1]
      /\ \A id \in Identifiers :
           FireTimeout(id) =>
             /\ timeouts' = [timeouts EXCEPT ![id] = @ - 1]
             /\ fetches'[id]["lookup"] <= fetches[id]["lookup"] + 1
    ]_vars

\* a further merge of a sound identifier arrives inside its debounce window
C2_Witness ==
  /\ symLast.op = "merge"
  /\ symLast.id \in symLast.keys
  /\ timeouts[symLast.id] = 1
  /\ symLast.id \in DOMAIN symbols
  /\ symbols[symLast.id].type = "sound"
  /\ symbols[symLast.id].status = Null

C4_PrunesExactlyTheDangling ==
  [][ \A b \in Blocks, lexicon \in Lexicons :
        UpdateActiveIdentifiers(b, lexicon) =>
          LET byBlock == activeIdentifiersByBlock'
              inTokens(ts, i) ==
                \E k \in DOMAIN ts : ts[k].type = "IDENTIFIER" /\ ts[k].value = i
              referenced(i) ==
                \/ inTokens(lexicon.tokens, i)
                \/ \E e \in DOMAIN lexicon.errors : inTokens(lexicon.errors[e].tokens, i)
          IN /\ DOMAIN byBlock = DOMAIN activeIdentifiersByBlock \cup {b}
             /\ byBlock[b] = {i \in Identifiers : referenced(i)}
             /\ \A x \in DOMAIN activeIdentifiersByBlock \ {b} :
                  byBlock[x] = activeIdentifiersByBlock[x]
             /\ DOMAIN symbols' =
                  {i \in DOMAIN symbols : \E x \in DOMAIN byBlock : i \in byBlock[x]}
             /\ \A i \in DOMAIN symbols' : symbols'[i] = symbols[i]
    ]_vars

\* an update removed one identifier and kept another that only another block
\* still references
C4_Witness ==
  /\ symLast.op = "update"
  /\ symLast.keys \ DOMAIN symbols # {}
  /\ \E i \in DOMAIN symbols, x \in DOMAIN activeIdentifiersByBlock :
       /\ x # symLast.id
       /\ i \in activeIdentifiersByBlock[x]
       /\ i \notin activeIdentifiersByBlock[symLast.id]

\* the status changes of a sound record the resolution is described with
StatusPath ==
  {<<Null, "searching">>, <<"searching", "unavailable">>,
   <<"searching", "downloading">>, <<"downloading", "available">>}

soundRecord(table, id) == id \in DOMAIN table /\ table[id].type = "sound"

\* C20: the status of a sound record changes only along null -> searching ->
\* unavailable or null -> searching -> downloading -> available; its value is
\* set exactly in the step in which the status becomes available; and the
\* step that changes the status notifies the observer of the identifier with
\* the new status.
C20_StatusFollowsPath ==
  [][ \A id \in Identifiers :
        (soundRecord(symbols, id) /\ soundRecord(symbols', id)) =>
          LET before == symbols[id].status
              after  == symbols'[id].status
          IN /\ before # after =>
                  /\ <<before, after>> \in StatusPath
                  /\ visual'[id] = after
             /\ symbols'[id].value # symbols[id].value
                  <=> (before # after /\ after = "available")
    ]_vars

\* the resolution steps the runtime will take when they can be taken: a timeout
\* that is due fires, a request that is in flight is answered. A failure is
\* never owed.
SymFairness ==
  \A id \in Identifiers :
    /\ WF_vars(FireTimeout(id))
    /\ WF_vars(\E results \in Results : LookupDone(id, results))
    /\ WF_vars(DownloadDone(id))
    /\ WF_vars(DecodeDone(id))

SpecSymFair == SpecSym /\ SymFairness

inResolution(id) ==
  id \in DOMAIN symbols /\ symbols[id].status \in {"searching", "downloading"}

resolved(id) ==
  id \in DOMAIN symbols /\ symbols[id].status \in {"available", "unavailable"}

\* C21: a resolution that fired for an identifier ends in status available or
\* unavailable unless the identifier leaves the table: a record in searching
\* or downloading does not stay there forever, also when the lookup or the
\* download fails.
C21_ResolutionEnds ==
  \A id \in Identifiers :
    inResolution(id) ~> (resolved(id) \/ id \notin DOMAIN symbols)

\* C22: merge(record) changes only the record of record.identifier; in it the
\* fields of the argument take the argument's values and every other field
\* keeps its value (null for type, status and value when the identifier is
\* new); the records of all other identifiers are unchanged.
C22_MergeFrame ==
  [][ \A symbol \in MergeInputs :
        Merge(symbol) =>
          LET id     == symbol.identifier
              before == IF id \in DOMAIN symbols THEN symbols[id] ELSE DefaultFields
          IN /\ DOMAIN symbols' = DOMAIN symbols \cup {id}
             /\ \A other \in DOMAIN symbols \ {id} : symbols'[other] = symbols[other]
             /\ DOMAIN symbols'[id] = DOMAIN before \cup DOMAIN symbol
             /\ \A k \in DOMAIN symbol : symbols'[id][k] = symbol[k]
             /\ \A k \in DOMAIN before \ DOMAIN symbol : symbols'[id][k] = before[k]
    ]_vars

\* a merge into a record that had a status, beside the record of another
\* identifier
C22_Witness ==
  /\ symLast.op = "merge"
  /\ symLast.id \in symLast.keys
  /\ symbols[symLast.id].status # Null
  /\ DOMAIN symbols # {symLast.id}
\* C31: for every interleaving of merge, remove and debounce-timer firings, at
\* most one resolution is pending or in progress for an identifier at any time:
\* its debounce timers and its lookups, downloads and decodings in flight are
\* at most one in all, so that removing a new sound and merging it again inside
\* the debounce window does not lead to two lookups for it.
C31_OneResolutionPerIdentifier ==
  \A id \in Identifiers : pending(id) <= 1
----------------------------------------------------------------------------
(* AST automaton: Terminal, Sequence, Choice *)

\* the most nodes of an AST
MaxNodes == 4
\* the most advances of the root in a run
MaxAdvances == 6

\* the weights a choice is given
Weights == {0, 1}

\* the sequences made of one element of each set of sets[1], sets[2], ...
RECURSIVE Tuples(_)
Tuples(sets) ==
  IF Len(sets) = 0 THEN {<< >>}
  ELSE {<<x>> \o t : x \in Head(sets), t \in Tuples(Tail(sets))}

RECURSIVE Leaves(_)
RECURSIVE LeavesOfAll(_)
Leaves(shape) ==
  IF shape.kind = "Terminal" THEN 1 ELSE LeavesOfAll(shape.children)
LeavesOfAll(shapes) ==
  IF Len(shapes) = 0 THEN 0 ELSE Leaves(Head(shapes)) + LeavesOfAll(Tail(shapes))

\* the constructor expressions with n nodes, their steps numbered from `first` in
\* source order: new Terminal(step), new Sequence([...]), new Choice([...], pdf).
\* ShapeLists[n, first] are the argument lists with n nodes in all.
ShapesOver(lists, n, first) ==
  IF n = 0 THEN {}
  ELSE (IF n = 1 THEN {[kind |-> "Terminal", step |-> first]} ELSE {})
       \cup {[kind |-> "Sequence", children |-> c] : c \in lists[n - 1, first]}
       \cup UNION {{[kind |-> "Choice", children |-> c, pdf |-> pdf] :
                      pdf \in [1..Len(c) -> Weights]} : c \in lists[n - 1, first]}

ShapeLists[n \in 0..MaxNodes, first \in 1..(MaxNodes + 1)] ==
  IF n = 0 THEN {<< >>}
  ELSE UNION {UNION {{<<x>> \o rest : rest \in ShapeLists[n - k, first + Leaves(x)]} :
                       x \in ShapesOver(ShapeLists, k, first)} : k \in 1..n}

Shapes(n, first) == ShapesOver(ShapeLists, n, first)

AllShapes == UNION {Shapes(n, 1) : n \in 1..MaxNodes}

Thrown == [kind |-> "Thrown"]

\* the child list of a NonTerminal: _seq or _choices
children(node) == IF node.kind = "Sequence" THEN node._seq ELSE node._choices

\* this._currentNode, or Thrown where the reference is undefined
currentNode(node) ==
  IF node._currentNode < Len(children(node))
  THEN children(node)[node._currentNode + 1] ELSE Thrown

\* lines 325-326: cdf = pdf.map(p => (acc = p + acc))
RECURSIVE cdfOf(_)
cdfOf(pdf) ==
  IF Len(pdf) = 0 THEN << >>
  ELSE LET front == cdfOf(SubSeq(pdf, 1, Len(pdf) - 1))
       IN Append(front, (IF Len(front) = 0 THEN 0 ELSE front[Len(front)]) + pdf[Len(pdf)])

\* Math.random() * total, as far as the comparisons with the integer entries of
\* the cdf can tell: the whole part of a real of [0, total)
Draws(total) == IF total > 0 THEN 0..(total - 1) ELSE {0}

\* choose, lines 319-320: the indexes choices[...] can be read at. The filter calls
\* Math.random() once for every entry of the cdf.
choose(cdf) ==
  LET n == Len(cdf)
      passes(i) == {cdf[i] <= d : d \in Draws(cdf[n])}
      always    == {i \in 1..n : passes(i) = {TRUE}}
      sometimes == {i \in 1..n : passes(i) = {TRUE, FALSE}}
  IN IF n = 0 THEN {0}
     ELSE {Cardinality(always) + Cardinality(some) : some \in SUBSET sometimes}

\* new Terminal(step), lines 190-194, 226
newTerminal(step) == [kind |-> "Terminal", _current |-> step, _next |-> step]

\* new Sequence(seq), lines 256-262, 297-302: seq[0].current() throws on an empty seq
newSequence_AllowsEmpty(seq) ==
  [kind |-> "Sequence",
   _current |-> IF Len(seq) = 0 THEN 0 ELSE seq[1]._current,
   _next |-> IF Len(seq) = 0 THEN 0 ELSE seq[1]._current,
   _currentNode |-> 0, _currentNodeIndex |-> 0, _seq |-> seq]

newSequence(seq) ==
  IF Len(seq) = 0 THEN Thrown
  ELSE [kind |-> "Sequence", _current |-> seq[1]._current, _next |-> seq[1]._current,
        _currentNode |-> 0, _currentNodeIndex |-> 0, _seq |-> seq]

\* new Choice(choices, pdf), lines 323-334, the first child being choices[index]
newChoice(choices, pdf, index) ==
  IF index >= Len(choices) THEN Thrown
  ELSE [kind |-> "Choice", _current |-> choices[index + 1]._current,
        _next |-> choices[index + 1]._current, _currentNode |-> index,
        _choices |-> choices, _pdf |-> pdf, _cdf |-> cdfOf(pdf)]

\* the nodes a constructor expression can evaluate to (Thrown: it throws)
RECURSIVE construct(_)
construct(shape) ==
  IF shape.kind = "Terminal" THEN {newTerminal(shape.step)}
  ELSE LET kids == Tuples([i \in 1..Len(shape.children) |-> construct(shape.children[i])])
           built(ks) ==
             IF \E i \in 1..Len(ks) : ks[i] = Thrown THEN {Thrown}
             ELSE IF shape.kind = "Sequence" THEN {newSequence(ks)}
             ELSE {newChoice(ks, shape.pdf, index) : index \in choose(cdfOf(shape.pdf))}
       IN UNION {built(ks) : ks \in kids}

\* Sequence.advanceCurrentNode, lines 304-316
sequenceAdvanceCurrentNode_WrapsLate(node) ==
  LET wraps == node._currentNodeIndex = Len(node._seq)
      index == IF wraps THEN 0 ELSE node._currentNodeIndex + 1
  IN [node |-> [node EXCEPT !._currentNodeIndex = index, !._currentNode = index],
      ret  |-> wraps]

sequenceAdvanceCurrentNode(node) ==
  LET wraps == node._currentNodeIndex = Len(node._seq) - 1
      index == IF wraps THEN 0 ELSE node._currentNodeIndex + 1
  IN [node |-> [node EXCEPT !._currentNodeIndex = index, !._currentNode = index],
      ret  |-> wraps]

\* Choice.advanceCurrentNode, lines 336-341, the draw selecting choices[index]
choiceAdvanceCurrentNode_TrueOnChange(node, index) ==
  [node |-> [node EXCEPT !._currentNode = index], ret |-> index # node._currentNode]

choiceAdvanceCurrentNode(node, index) ==
  [node |-> [node EXCEPT !._currentNode = index], ret |-> TRUE]

\* advanceCurrentNode of either kind: the outcomes it can have
advanceCurrentNode(node) ==
  IF node.kind = "Sequence" THEN {sequenceAdvanceCurrentNode(node)}
  ELSE {choiceAdvanceCurrentNode(node, index) : index \in choose(node._cdf)}

\* node with its current child replaced by the child as advanced
withCurrentNode(node, child) ==
  IF node.kind = "Sequence"
  THEN [node EXCEPT !._seq[node._currentNode + 1] = child]
  ELSE [node EXCEPT !._choices[node._currentNode + 1] = child]

\* lines 282-284 of NonTerminal.advance: this._current = this._next, this._next =
\* this._currentNode.next(), return thisHasCycled
finish_CurrentFromChild(n, ret) ==
  IF currentNode(n) = Thrown THEN [node |-> n, ret |-> FALSE, threw |-> TRUE]
  ELSE [node  |-> [n EXCEPT !._current = currentNode(n)._current,
                            !._next = currentNode(n)._next],
        ret   |-> ret,
        threw |-> FALSE]

finish(n, ret) ==
  IF currentNode(n) = Thrown THEN [node |-> n, ret |-> FALSE, threw |-> TRUE]
  ELSE [node  |-> [n EXCEPT !._current = n._next,
                            !._next = currentNode(n)._next],
        ret   |-> ret,
        threw |-> FALSE]

\* lines 279-284 of NonTerminal.advance once this._currentNode.advance() had the
\* outcome c: advanceCurrentNode() is called only if it returned true
afterChild_SwitchesAlways(node, c) ==
  LET advanced == withCurrentNode(node, c.node)
  IN IF c.threw THEN {[node |-> advanced, ret |-> FALSE, threw |-> TRUE]}
     ELSE {finish(o.node, o.ret) : o \in advanceCurrentNode(advanced)}

afterChild(node, c) ==
  LET advanced == withCurrentNode(node, c.node)
  IN IF c.threw THEN {[node |-> advanced, ret |-> FALSE, threw |-> TRUE]}
     ELSE IF c.ret
     THEN {finish(o.node, o.ret) : o \in advanceCurrentNode(advanced)}
     ELSE {finish(advanced, FALSE)}

\* advance(): Terminal line 237, NonTerminal lines 275-285. The outcomes
\* [node, ret, threw] of one call; threw where the call throws (a TypeError on
\* an undefined current node).
RECURSIVE advance(_)
advance(node) ==
  IF node.kind = "Terminal" THEN {[node |-> node, ret |-> TRUE, threw |-> FALSE]}
  ELSE IF currentNode(node) = Thrown
  THEN {[node |-> node, ret |-> FALSE, threw |-> TRUE]}
  ELSE UNION {afterChild(node, c) : c \in advance(currentNode(node))}

\* an AST is constructed from one of the constructor expressions `shapes`
ConstructFrom(shapes) ==
  /\ root.kind = "None"
  /\ \E shape \in shapes :
       /\ root' \in construct(shape)
       /\ astLast' = [n |-> 0, ret |-> FALSE, threw |-> FALSE, shape |-> shape]
  /\ UNCHANGED <<symVars, schedVars, parseVars>>

Construct == ConstructFrom(AllShapes)

\* root.advance() is called
Advance ==
  /\ root.kind \in {"Terminal", "Sequence", "Choice"}
  /\ astLast.n < MaxAdvances
  /\ ~astLast.threw
  /\ \E o \in advance(root) :
       /\ root' = o.node
       /\ astLast' = [n |-> astLast.n + 1, ret |-> o.ret, threw |-> o.threw,
                      shape |-> astLast.shape]
  /\ UNCHANGED <<symVars, schedVars, parseVars>>

AstNext ==
  \/ Construct
  \/ Advance

SpecAst == Init /\ [][AstNext]_vars
----------------------------------------------------------------------------
(* AST automaton: claims *)

\* the node returns true from every advance(): a Terminal, a Choice all of whose
\* children do, a Sequence of one child that does
RECURSIVE CyclesOnEveryAdvance(_)
CyclesOnEveryAdvance(node) ==
  \/ node.kind = "Terminal"
  \/ /\ node.kind = "Choice"
     /\ \A i \in 1..Len(node._choices) : CyclesOnEveryAdvance(node._choices[i])
  \/ /\ node.kind = "Sequence"
     /\ Len(node._seq) = 1
     /\ CyclesOnEveryAdvance(node._seq[1])

\* the k-th advance() of a Sequence of N children, counted from child index 0,
\* returns true exactly when k is a multiple of N and leaves the index at k mod N
PeriodIsChildCount(node) ==
  LET N == Len(node._seq)
  IN /\ ~astLast.threw
     /\ node._currentNodeIndex = astLast.n % N
     /\ astLast.n > 0 => (astLast.ret <=> astLast.n % N = 0)

\* C5 as stated: for any Sequence with N children, starting from child index 0,
\* N consecutive calls of advance() return true exactly once, on the Nth call,
\* and the child index is 0 again after it.
C5_AnySequencePeriod ==
  root.kind = "Sequence" => PeriodIsChildCount(root)

\* C5 as amended: the same, for a Sequence whose children each return true from
\* every advance() (Terminals, Choices over such children).
C5_SequencePeriod ==
  (root.kind = "Sequence"
     /\ \A i \in 1..Len(root._seq) : CyclesOnEveryAdvance(root._seq[i]))
    => PeriodIsChildCount(root)

\* a Sequence of three Terminals has been advanced three times and has cycled
C5_Witness ==
  /\ root.kind = "Sequence"
  /\ Len(root._seq) = 3
  /\ \A i \in 1..3 : root._seq[i].kind = "Terminal"
  /\ astLast.n = 3
  /\ astLast.ret
  /\ root._currentNodeIndex = 0

\* C6 as stated: every call of Choice.advance() returns true, over any children.
C6_AnyChoiceCycles ==
  (root.kind = "Choice" /\ astLast.n > 0) => (astLast.ret /\ ~astLast.threw)

\* C6 as amended: every call of Choice.advance() returns true when the children of
\* the Choice each return true from every advance() (Terminals), whichever child
\* each draw selects.
C6_ChoiceCycles ==
  (root.kind = "Choice" /\ astLast.n > 0
     /\ \A i \in 1..Len(root._choices) : CyclesOnEveryAdvance(root._choices[i]))
    => (astLast.ret /\ ~astLast.threw)

\* a Choice over two Terminals has been advanced and the draw selected its second
\* child
C6_Witness ==
  /\ root.kind = "Choice"
  /\ Len(root._choices) = 2
  /\ \A i \in 1..2 : root._choices[i].kind = "Terminal"
  /\ root._pdf = <<1, 1>>
  /\ astLast.n > 1
  /\ astLast.ret
  /\ root._currentNode = 1

\* the nodes of an AST: the node and the nodes below it
RECURSIVE nodesOf(_)
nodesOf(node) ==
  IF node.kind \in {"Sequence", "Choice"}
  THEN {node} \cup UNION {nodesOf(children(node)[i]) : i \in 1..Len(children(node))}
  ELSE {node}

\* C23: the cumulative weight table of every constructed Choice is strictly
\* increasing and has exactly as many entries as the Choice has children.
C23_CdfStrictlyIncreasing ==
  \A node \in nodesOf(root) :
    node.kind = "Choice" =>
      /\ Len(node._cdf) = Len(node._choices)
      /\ \A i \in 1..(Len(node._cdf) - 1) : node._cdf[i] < node._cdf[i + 1]

\* C24: the child a Choice has selected is a child of the Choice (the index
\* is a valid child index) and its weight is not 0.
C24_SelectsWeightedChild ==
  \A node \in nodesOf(root) :
    node.kind = "Choice" =>
      /\ node._currentNode < Len(node._choices)
      /\ node._pdf[node._currentNode + 1] # 0

\* the constructor expression has a Sequence with no children in it
RECURSIVE hasEmptySequence(_)
hasEmptySequence(shape) ==
  /\ shape.kind \in {"Sequence", "Choice"}
  /\ \/ shape.kind = "Sequence" /\ Len(shape.children) = 0
     \/ \E i \in 1..Len(shape.children) : hasEmptySequence(shape.children[i])

\* C25: constructing a Sequence with no children fails at construction, so no
\* node an advance can reach is a Sequence with zero children, and every
\* constructed node has its current and its next step defined.
C25_EmptySequenceFails ==
  /\ hasEmptySequence(astLast.shape) => root = Thrown
  /\ \A node \in nodesOf(root) :
       /\ node.kind = "Sequence" => Len(node._seq) > 0
       /\ node.kind \in {"Terminal", "Sequence", "Choice"} =>
            (node._current \in Nat \ {0} /\ node._next \in Nat \ {0})

\* new Sequence([]) was evaluated, and threw
C25_Witness ==
  /\ astLast.shape.kind = "Sequence"
  /\ Len(astLast.shape.children) = 0
  /\ root = Thrown
\* the most children of the outer node of a nested AST, and of each of its
\* children
MaxOuter == 3
MaxInner == 3

\* new Sequence([new Terminal(first), new Terminal(first + 1), ...]), of 1 to
\* MaxInner steps
InnerSequences(first) ==
  {[kind |-> "Sequence",
    children |-> [i \in 1..n |-> [kind |-> "Terminal", step |-> first + i - 1]]] :
     n \in 1..MaxInner}

\* the lists of k such Sequences, their steps numbered from `first` in source order
RECURSIVE NestedLists(_, _)
NestedLists(k, first) ==
  IF k = 0 THEN {<< >>}
  ELSE UNION {{<<x>> \o rest : rest \in NestedLists(k - 1, first + Leaves(x))} :
                x \in InnerSequences(first)}

\* a Sequence or a Choice whose children are Sequences of Terminals
NestedShapes ==
  UNION {UNION {{[kind |-> "Sequence", children |-> c]}
                  \cup {[kind |-> "Choice", children |-> c, pdf |-> pdf] :
                          pdf \in [1..k -> Weights]} :
                  c \in NestedLists(k, 1)} : k \in 1..MaxOuter}

ConstructNested == ConstructFrom(NestedShapes)

NestedNext ==
  \/ ConstructNested
  \/ Advance

SpecNested == Init /\ [][NestedNext]_vars

\* the root's current child returned true from the advance() that took it from
\* its state in `before` to its state in `after`
childCycled(before, afterwards) ==
  \E c \in advance(currentNode(before)) :
    /\ c.ret
    /\ ~c.threw
    /\ children(afterwards)[before._currentNode + 1] = c.node

\* for a Sequence of Sequences of L leaves in all, numbered 1..L in source order:
\* after n advances current() is the leaf ((n - 1) mod L) + 1 and the n-th
\* advance returned true exactly if n is a multiple of L
followsLeaves(node, last) ==
  LET L == Leaves(last.shape)
  IN (node.kind = "Sequence" /\ last.n > 0 /\ ~last.threw) =>
       /\ node._current = ((last.n - 1) % L) + 1
       /\ last.ret <=> last.n % L = 0

\* C27: a Sequence or Choice switches its current child only in an advance() in
\* which that child's own advance() returned true, and returns true only in such
\* a call; so a Sequence whose children are Sequences has as current(), over
\* successive advances, the leaves in source order, and reports cycled only
\* when its last child completes its period.
C27_SwitchesWhenChildCycles ==
  [][(root.kind \in {"Sequence", "Choice"} /\ astLast'.n = astLast.n + 1) =>
       /\ (root'._currentNode # root._currentNode \/ astLast'.ret) =>
            childCycled(root, root')
       /\ followsLeaves(root', astLast')]_vars

\* new Sequence([new Sequence([1, 2]), new Sequence([3, 4])]) has been advanced
\* four times: current() is 4, the call returned true and the first child is
\* current again
C27_Witness ==
  /\ astLast.shape.kind = "Sequence"
  /\ Len(astLast.shape.children) = 2
  /\ \A i \in 1..2 : Len(astLast.shape.children[i].children) = 2
  /\ astLast.n = 4
  /\ astLast.ret
  /\ root._current = 4
  /\ root._currentNode = 0
\* along the nodes one root.advance() advanced (the root, its current child, the
\* current child of that child, ...): current() after the call is what next()
\* was before it
RECURSIVE currentWasNext(_, _)
currentWasNext(before, afterwards) ==
  before.kind \in {"Sequence", "Choice"} =>
    /\ afterwards._current = before._next
    /\ currentWasNext(currentNode(before),
                      children(afterwards)[before._currentNode + 1])

\* C28: for every Sequence or Choice, after each advance() the value of
\* current() equals the value next() had immediately before that call: the step
\* announced as next is the step that becomes current one advance later.
\* current() and next() read _current and _next and assign nothing.
C28_CurrentWasNext ==
  [][(root.kind \in {"Sequence", "Choice"} /\ astLast'.n = astLast.n + 1
        /\ ~astLast'.threw) => currentWasNext(root, root')]_vars

\* new Sequence([1, 2, 3]) has been advanced twice: current() is 2, next() is 3
C28_Witness ==
  /\ root.kind = "Sequence"
  /\ Len(root._seq) = 3
  /\ astLast.n = 2
  /\ ~astLast.threw
  /\ root._current = 2
  /\ root._next = 3
----------------------------------------------------------------------------
(* Scheduler *)

\* the variables memory holds, and the tempos the transport sends
Keys == {"x", "y"}
Bpms == {InitialBpm, 90}

\* the steps of a Thread's automaton before its cursor is back at the start
ThreadLength == 2
\* the most calls made on the recorder in a run
MaxRecorderCalls == 2

\* Thread (./thread): a cursor over the variable's AST; run(tempo) moves it one
\* step on, resetReadHead() puts it back at the start. id is the identity of
\* the object: two Threads with different ids are different objects.
newThread(id) == [id |-> id, cursor |-> 0]
run(thread, tempo) == [thread EXCEPT !.cursor = (@ + 1) % ThreadLength]
resetReadHead(thread) == [thread EXCEPT !.cursor = 0]

\* the history of a handler: the method it has just entered
called(st, method) == [st EXCEPT !.calls = @ \cup {method}]

\* setInterval: an id no active timer has
newInterval(active) == CHOOSE i \in 1..(Cardinality(active) + 1) : i \notin active

\* clearInterval(id); clearInterval(null) clears nothing
clearInterval(active, id) == active \ {id}

\* start(), lines 162-179
start_NoGuard(st) ==
  LET id == newInterval(st.intervals)
  IN [st EXCEPT !.timerFn = id, !.intervals = @ \cup {id}]

start(st) ==
  IF st.timerFn # NoTimer THEN st
  ELSE LET id == newInterval(st.intervals)
       IN [st EXCEPT !.timerFn = id, !.intervals = @ \cup {id}]

\* pause(), lines 139-143
pause(st) ==
  [st EXCEPT !.intervals = clearInterval(@, st.timerFn),
             !.timerFn = NoTimer,
             !.contextState = "suspended"]

\* stop(), lines 132-137
stop_KeepsReadHeads(st) == pause(st)

stop(st) ==
  [st EXCEPT !.intervals = clearInterval(@, st.timerFn),
             !.timerFn = NoTimer,
             !.threads = [k \in DOMAIN st.threads |-> resetReadHead(st.threads[k])],
             !.contextState = "suspended"]

\* startRecording(), lines 145-148: isRecording is set when the promise resolves
startRecording(st) ==
  IF st.isRecording THEN st
  ELSE [st EXCEPT !.recorderCalls = Append(@, "start"), !.promises.start = @ + 1]

\* stopRecording(), lines 150-160
stopRecording(st) ==
  IF ~st.isRecording THEN st
  ELSE [st EXCEPT !.recorderCalls = Append(@, "stop"), !.promises.stop = @ + 1]

\* toggleMute(isMuted), lines 128-130
toggleMute(st, isMuted) == [st EXCEPT !.gain = IF isMuted THEN 0 ELSE 1]

\* values(this.threads): the Thread objects bound, by identity
values(bound) == {bound[k].id : k \in DOMAIN bound}

\* new Thread(...) for key: an object that is none of the objects still
\* referenced (by this.threads or by the array a tick in progress iterates).
\* An identity is the key the Thread was made for and a number that tells it
\* from the other live Threads made for that key.
newThreadId(st, key) ==
  LET live == values(st.threads) \cup st.sweep.bound
      id(n) == [key |-> key, n |-> n]
  IN id(CHOOSE n \in 0..Cardinality(live) :
          id(n) \notin live /\ \A m \in 0..(n - 1) : id(m) \in live)

\* scheduleThread(key), lines 114-120, and killThread(key), lines 122-126
scheduleThread_KeepsBound(st, key) ==
  IF key \in DOMAIN st.threads THEN st
  ELSE [st EXCEPT !.threads = [k \in DOMAIN st.threads \cup {key} |->
                                 IF k = key THEN newThread(newThreadId(st, key))
                                 ELSE st.threads[k]]]

scheduleThread(st, key) ==
  [st EXCEPT !.threads = [k \in DOMAIN st.threads \cup {key} |->
                            IF k = key THEN newThread(newThreadId(st, key))
                            ELSE st.threads[k]]]

killThread(st, key) ==
  [st EXCEPT !.threads = [k \in DOMAIN st.threads \ {key} |-> st.threads[k]]]

\* transport.isPlaying subscription, lines 72-77
onIsPlaying(st, value) ==
  LET set == [st EXCEPT !.isPlaying = value]
  IN IF set.isPlaying THEN start(called(set, "start"))
     ELSE LET rec == IF set.isRecording
                     THEN stopRecording(called(set, "stopRecording")) ELSE set
          IN stop(called(rec, "stop"))

\* transport.isPaused subscription, lines 78-83
onIsPaused(st, value) ==
  LET set == [st EXCEPT !.isPaused = value]
  IN IF ~set.isPaused /\ set.isPlaying THEN start(called(set, "start"))
     ELSE LET rec == IF set.isRecording
                     THEN stopRecording(called(set, "stopRecording")) ELSE set
          IN pause(called(rec, "pause"))

\* transport.isRecording subscription, lines 84-89
onIsRecording(st, value) ==
  LET started == IF value /\ ~st.isPlaying THEN start(called(st, "start")) ELSE st
  IN IF value THEN startRecording(called(started, "startRecording"))
     ELSE stopRecording(called(started, "stopRecording"))

\* transport.bpm subscription, lines 93-95
onBpm_SetsCurrent(st, value) == [st EXCEPT !.bpm = [current |-> value, next |-> value]]

onBpm(st, value) == [st EXCEPT !.bpm.next = value]

\* lines 170-172: every Thread of values(this.threads) is run with bpm.current
RECURSIVE runThreads(_, _)
runThreads(st, keys) ==
  IF keys = {} THEN st
  ELSE LET k == CHOOSE x \in keys : TRUE
       IN runThreads([st EXCEPT !.threads[k] = run(@, st.bpm.current),
                                !.ran = [x \in DOMAIN st.ran \cup {k} |->
                                           IF x = k THEN st.bpm.current ELSE st.ran[x]]],
                     keys \ {k})

\* the setInterval callback, lines 166-178
tick(st) ==
  LET resumed == IF st.contextState = "suspended"
                 THEN [st EXCEPT !.contextState = "running"] ELSE st
      swept   == runThreads(resumed, DOMAIN resumed.threads)
  IN [swept EXCEPT !.bpm.current = swept.bpm.next]

\* The tick callback in steps. Handlers run to completion, so a memory change
\* can reach the Scheduler during the loop of lines 170-172 only from inside a
\* thread.run call; Thread is not in the sources, and the steps below allow it.
\* line 168 and the evaluation of values(this.threads) at line 170
tickBegin(st) ==
  LET resumed == IF st.contextState = "suspended"
                 THEN [st EXCEPT !.contextState = "running"] ELSE st
  IN [resumed EXCEPT !.sweep = [active |-> TRUE, bound |-> values(st.threads),
                                ran |-> {}]]

\* the Threads the loop of lines 170-172 has still to visit: those of the array
\* values(this.threads) returned when the loop began
sweepRest_LiveThreads(st) == values(st.threads) \ st.sweep.ran

sweepRest(st) == st.sweep.bound \ st.sweep.ran

\* line 171 for one Thread of the array, bound to a key or no longer
tickRun(st, id) ==
  [st EXCEPT !.threads = [k \in DOMAIN st.threads |->
                            IF st.threads[k].id = id
                            THEN run(st.threads[k], st.bpm.current)
                            ELSE st.threads[k]],
             !.sweep.ran = @ \cup {id}]

\* line 176, after the loop
tickEnd(st) == [st EXCEPT !.bpm.current = st.bpm.next, !.sweep = NoSweep]

\* the state the operators above work on, with the history of the handler
SchedState ==
  [isPlaying |-> isPlaying, isPaused |-> isPaused, isRecording |-> isRecording,
   bpm |-> bpm, timerFn |-> timerFn, intervals |-> intervals, threads |-> threads,
   contextState |-> contextState, gain |-> gain, recorderCalls |-> recorderCalls,
   promises |-> promises, sweep |-> sweep, calls |-> {}, ran |-> << >>]

SchedSet(st, op, arg) ==
  /\ Len(st.recorderCalls) <= MaxRecorderCalls
  /\ isPlaying' = st.isPlaying
  /\ isPaused' = st.isPaused
  /\ isRecording' = st.isRecording
  /\ bpm' = st.bpm
  /\ timerFn' = st.timerFn
  /\ intervals' = st.intervals
  /\ threads' = st.threads
  /\ contextState' = st.contextState
  /\ gain' = st.gain
  /\ recorderCalls' = st.recorderCalls
  /\ promises' = st.promises
  /\ sweep' = st.sweep
  /\ schedLast' = [op |-> op, arg |-> ToString(arg), calls |-> st.calls,
                   timerBefore |-> timerFn,
                   moved |-> \E k \in DOMAIN threads : threads[k].cursor # 0,
                   ran |-> st.ran]
  /\ UNCHANGED <<symVars, astVars, parseVars>>

\* the transport signals
IsPlayingSignal(value) ==
  /\ value \in BOOLEAN
  /\ SchedSet(onIsPlaying(SchedState, value), "isPlaying", value)

IsPausedSignal(value) ==
  /\ value \in BOOLEAN
  /\ SchedSet(onIsPaused(SchedState, value), "isPaused", value)

IsRecordingSignal(value) ==
  /\ value \in BOOLEAN
  /\ SchedSet(onIsRecording(SchedState, value), "isRecording", value)

IsMutedSignal(value) ==
  /\ value \in BOOLEAN
  /\ SchedSet(toggleMute(SchedState, value), "isMuted", value)

BpmSignal(value) ==
  /\ value \in Bpms
  /\ SchedSet(onBpm(SchedState, value), "bpm", value)

\* the memory changes, lines 26-36
MemoryChange(type, key) ==
  /\ type \in {"SET", "DELETE"}
  /\ SchedSet(IF type = "SET" THEN scheduleThread(SchedState, key)
              ELSE killThread(SchedState, key),
              type, key)

\* an active interval timer fires
Tick(id) ==
  /\ id \in intervals
  /\ SchedSet(tick(SchedState), "tick", id)

\* recorder.start() resolves, line 147
StartResolved ==
  /\ promises.start > 0
  /\ SchedSet([SchedState EXCEPT !.promises.start = @ - 1, !.isRecording = TRUE],
              "started", "")

\* recorder.stop() resolves, lines 152-159
StopResolved ==
  /\ promises.stop > 0
  /\ SchedSet([SchedState EXCEPT !.promises.stop = @ - 1, !.isRecording = FALSE],
              "stopped", "")

SchedNext ==
  \/ \E value \in BOOLEAN : IsPlayingSignal(value)
  \/ \E value \in BOOLEAN : IsPausedSignal(value)
  \/ \E value \in BOOLEAN : IsRecordingSignal(value)
  \/ \E value \in BOOLEAN : IsMutedSignal(value)
  \/ \E value \in Bpms : BpmSignal(value)
  \/ \E type \in {"SET", "DELETE"}, key \in Keys : MemoryChange(type, key)
  \/ \E id \in intervals : Tick(id)
  \/ StartResolved
  \/ StopResolved

SpecSched == Init /\ [][SchedNext]_vars

\* the tick callback step by step, with the memory changes
TickBegin(id) ==
  /\ id \in intervals
  /\ ~sweep.active
  /\ SchedSet(tickBegin(SchedState), "tickBegin", id)

TickRun(id) ==
  /\ sweep.active
  /\ id \in sweepRest(SchedState)
  /\ SchedSet(tickRun(SchedState, id), "tickRun", id)

TickEnd ==
  /\ sweep.active
  /\ sweepRest(SchedState) = {}
  /\ SchedSet(tickEnd(SchedState), "tickEnd", "")

SweepNext ==
  \/ ~sweep.active /\ \E value \in BOOLEAN : IsPlayingSignal(value)
  \/ \E type \in {"SET", "DELETE"}, key \in Keys : MemoryChange(type, key)
  \/ \E id \in intervals : TickBegin(id)
  \/ \E id \in sweep.bound \cup values(threads) : TickRun(id)
  \/ TickEnd

SpecSweep == Init /\ [][SweepNext]_vars
----------------------------------------------------------------------------
(* Scheduler: claims *)

\* C7: the Scheduler has at most one active tick timer, the one this.timerFn
\* names; a start() called while a timer is active creates no second timer and
\* leaves that timer running.
C7_AtMostOneTimer ==
  /\ intervals = IF timerFn = NoTimer THEN {} ELSE {timerFn}
  /\ ("start" \in schedLast.calls /\ schedLast.timerBefore # NoTimer)
       => (timerFn = schedLast.timerBefore /\ intervals = {schedLast.timerBefore})

\* start() has been called while a timer was active
C7_Witness ==
  /\ "start" \in schedLast.calls
  /\ schedLast.timerBefore # NoTimer
  /\ intervals = {timerFn}

\* C8: a tick runs every bound Thread with the tempo bpm.current had when the
\* tick began and adopts bpm.next only after them; a tempo signal changes only
\* bpm.next; and nothing but a tick changes bpm.current.
C8_TempoChangesBetweenTicks ==
  [][ /\ \A id \in intervals :
           Tick(id) =>
             /\ DOMAIN schedLast'.ran = DOMAIN threads
             /\ \A k \in DOMAIN threads : schedLast'.ran[k] = bpm.current
             /\ bpm' = [current |-> bpm.next, next |-> bpm.next]
      /\ \A value \in Bpms :
           BpmSignal(value) => bpm' = [current |-> bpm.current, next |-> value]
      /\ bpm'.current # bpm.current => \E id \in intervals : Tick(id)
    ]_vars

\* a tick has run two Threads with one tempo and then adopted the buffered one
C8_Witness ==
  /\ schedLast.op = "tick"
  /\ DOMAIN schedLast.ran = Keys
  /\ \A k \in Keys : schedLast.ran[k] # bpm.current

\* C9: stop() clears the timer, puts the cursor of every bound Thread at its
\* start and suspends the audio context; pause() clears the timer, suspends the
\* context and leaves every Thread as it is; a handler that only calls start()
\* leaves every Thread as it is, so playback continues from the positions held.
C9_StopResetsPauseKeeps ==
  [][ /\ "stop" \in schedLast'.calls =>
           /\ timerFn' = NoTimer
           /\ timerFn \notin intervals'
           /\ DOMAIN threads' = DOMAIN threads
           /\ \A k \in DOMAIN threads' : threads'[k].cursor = 0
           /\ contextState' = "suspended"
      /\ "pause" \in schedLast'.calls =>
           /\ timerFn' = NoTimer
           /\ timerFn \notin intervals'
           /\ threads' = threads
           /\ contextState' = "suspended"
      /\ ("start" \in schedLast'.calls /\ "stop" \notin schedLast'.calls)
           => threads' = threads
    ]_vars

\* stop() has been called with a timer active and a Thread away from its start
C9_Witness ==
  /\ "stop" \in schedLast.calls
  /\ schedLast.timerBefore # NoTimer
  /\ schedLast.moved
  /\ DOMAIN threads = Keys

\* C10: the calls made on the recorder strictly alternate between start (open)
\* and stop (close), beginning with start.
C10_OpenCloseAlternate ==
  \A i \in 1..Len(recorderCalls) :
    recorderCalls[i] = IF i % 2 = 1 THEN "start" ELSE "stop"

\* C11: a tick runs the Threads that were bound when its loop began and no
\* other: a Thread bound during the loop is not run by it (it is still at its
\* start while the loop lasts), the loop ends when every Thread of its array
\* has been run, and the next tick takes every Thread bound by then.
C11_SweepRunsBoundThreads ==
  [][ /\ sweep'.active =>
           /\ sweep'.ran \subseteq sweep'.bound
           /\ \A k \in DOMAIN threads' :
                threads'[k].id \notin sweep'.bound => threads'[k].cursor = 0
      /\ TickEnd => sweep.ran = sweep.bound
      /\ \A id \in intervals : TickBegin(id) => sweep'.bound = values(threads)
    ]_vars

\* a Thread was bound during a loop that has since run all the Threads of its
\* array
C11_Witness ==
  /\ sweep.active
  /\ sweep.bound # {}
  /\ sweep.ran = sweep.bound
  /\ \E k \in DOMAIN threads : threads[k].id \notin sweep.bound

\* C12: a SET binds its key to a Thread and a DELETE unbinds it, each leaving
\* the other keys as they are, and nothing else binds or unbinds a key; the
\* Thread a SET binds is newly constructed (at its start) and is none of the
\* Threads bound before, the one of the same key included.
C12_ThreadIffLastSet ==
  [][ /\ \A type \in {"SET", "DELETE"}, key \in Keys :
           MemoryChange(type, key) =>
             /\ (key \in DOMAIN threads') <=> (type = "SET")
             /\ \A k \in Keys \ {key} :
                  /\ (k \in DOMAIN threads') <=> (k \in DOMAIN threads)
                  /\ k \in DOMAIN threads => threads'[k] = threads[k]
             /\ type = "SET" =>
                  /\ threads'[key].cursor = 0
                  /\ threads'[key].id \notin values(threads)
      /\ (DOMAIN threads' # DOMAIN threads \/ values(threads') # values(threads))
           => \E type \in {"SET", "DELETE"}, key \in Keys : MemoryChange(type, key)
    ]_vars

\* a SET has just replaced the Thread of a key that was bound
C12_Witness ==
  /\ schedLast.op = "SET"
  /\ \E k \in Keys : DOMAIN threads = {k} /\ threads[k].id.n = 1
\* C29: the tick timer is active only while the transport is playing and not
\* paused (isPlaying is true and isPaused is false), so no Thread is advanced
\* while the transport is stopped or paused.
C29_TimerOnlyWhilePlaying ==
  /\ timerFn # NoTimer => (isPlaying /\ ~isPaused)
  /\ (schedLast.op = "tick" /\ DOMAIN schedLast.ran # {}) => (isPlaying /\ ~isPaused)
----------------------------------------------------------------------------
(* FirstPassParser (src/unnamed/part_000) *)

\* LexicalTokenType and SemanticTokenType, src/src/interpreter/types/tokens.js
LexicalTokenType ==
  [Bracket |-> "BRACKET", Delimiter |-> "DELIMITER", Operator |-> "OPERATOR",
   Comment |-> "COMMENT", Number |-> "NUMBER", Hz |-> "HZ", HzUnit |-> "HZ_UNIT",
   Identifier |-> "IDENTIFIER"]

SemanticTokenType ==
  [Variable |-> "VARIABLE", VariableDecl |-> "VARIABLE_DECL",
   AssignmentOp |-> "ASSIGNEMENT_OP", Fn |-> "FN", FnBracket |-> "FN_BRACKET",
   FnParameter |-> "FN_PARAMETER", FnParamKvDelimiter |-> "FN_PARAM_KV_DELIMITER",
   FnParamDelimiter |-> "FN_PARAM_DELIMITER", SoundLiteral |-> "SOUND_LITERAL",
   BeatDivBracket |-> "BEAT_DIV_BRACKET", SequenceBracket |-> "SEQUENCE_BRACKET",
   ChoiceOp |-> "CHOICE_OP", RepetitionOp |-> "REPETITION_OP",
   ChainingOp |-> "CHAINING_OP"]

\* a lexeme is a lexical token without its place: type, value, length in characters
Lexeme(type, value, length) == [type |-> type, value |-> value, length |-> length]

\* the lexemes the statements below are written with
L ==
  [Kick |-> Lexeme(LexicalTokenType.Identifier, "kick", 4),
   Snare |-> Lexeme(LexicalTokenType.Identifier, "snare", 5),
   X |-> Lexeme(LexicalTokenType.Identifier, "x", 1),
   Reverb |-> Lexeme(LexicalTokenType.Identifier, "reverb", 6),
   Loop |-> Lexeme(LexicalTokenType.Identifier, "loop", 4),
   Pitch |-> Lexeme(LexicalTokenType.Identifier, "pitch", 5),
   Wet |-> Lexeme(LexicalTokenType.Identifier, "wet", 3),
   Foo |-> Lexeme(LexicalTokenType.Identifier, "foo", 3),
   Assign |-> Lexeme(LexicalTokenType.Operator, "=", 1),
   Star |-> Lexeme(LexicalTokenType.Operator, "*", 1),
   Bar |-> Lexeme(LexicalTokenType.Operator, "|", 1),
   Dot |-> Lexeme(LexicalTokenType.Operator, ".", 1),
   Open |-> Lexeme(LexicalTokenType.Bracket, "(", 1),
   Close |-> Lexeme(LexicalTokenType.Bracket, ")", 1),
   OpenDiv |-> Lexeme(LexicalTokenType.Bracket, "[", 1),
   CloseDiv |-> Lexeme(LexicalTokenType.Bracket, "]", 1),
   Comma |-> Lexeme(LexicalTokenType.Delimiter, ",", 1),
   Colon |-> Lexeme(LexicalTokenType.Delimiter, ":", 1),
   One |-> Lexeme(LexicalTokenType.Number, "1", 1),
   Four |-> Lexeme(LexicalTokenType.Number, "4", 1),
   Comment |-> Lexeme(LexicalTokenType.Comment, "# c", 3)]

\* the lexical tokens of a block whose lexemes are one blank apart
RECURSIVE startOf(_, _)
startOf(lexemes, i) ==
  IF i = 1 THEN 0 ELSE startOf(lexemes, i - 1) + lexemes[i - 1].length + 1

tokensOf(lexemes) ==
  [i \in 1..Len(lexemes) |->
     [type |-> lexemes[i].type, value |-> lexemes[i].value,
      start |-> startOf(lexemes, i), length |-> lexemes[i].length]]

\* peek() returning null, and the undefined consume() returns past the end
NullToken == [type |-> Null, value |-> Null, start |-> 0 - 1, length |-> 0]
Undefined == [type |-> "undefined", value |-> "undefined", start |-> 0 - 1, length |-> 0]

\* String(token) of a token object
ObjectString == "[object Object]"

\* /[chars]/.test(subject): the subject holds one of the characters. The values
\* of the lexemes above that hold a bracket, a comma or a colon are that
\* character alone.
test(chars, subject) ==
  IF subject = ObjectString THEN chars \cap {"[", "]"} # {}
  ELSE subject \in chars

\* the symbol table the parser is given: the variables declared, the static
\* functions, and the parameters of each function with the type of its
\* argument ("flag" for a parameter without one)
DeclaredVariables == {"x"}
Fns == {"reverb"}
FnParameters ==
  [_soundFn |-> [loop |-> "flag", pitch |-> "NUMBER"],
   reverb   |-> [wet |-> "NUMBER"]]

isVariable(identifier) == identifier \in DeclaredVariables
isFn(identifier) == identifier \in Fns
isSoundLiteral(identifier) == ~isFn(identifier) /\ ~isVariable(identifier)
isFnParameter(fnName, value) ==
  fnName \in DOMAIN FnParameters /\ value \in DOMAIN FnParameters[fnName]
isFnFlagParameter(fnName, value) ==
  isFnParameter(fnName, value) /\ FnParameters[fnName][value] = "flag"
isValidFnArg(fnName, value, arg) ==
  isFnParameter(fnName, value) /\ arg.type = FnParameters[fnName][value]
\* translateFnArgs: the parameter with its value, as an object of one key
translateFnArgs(fnName, value, args) ==
  << <<value, IF args = << >> THEN "true" ELSE args[1].value>> >>

\* {...parameters, ...more} on objects kept as key-value pairs in key order: a
\* key already present keeps its place and takes the new value, a new key
\* goes last
RECURSIVE spreadInto(_, _)
spreadInto(parameters, more) ==
  IF more = << >> THEN parameters
  ELSE LET kv == Head(more)
           at == {i \in 1..Len(parameters) : parameters[i][1] = kv[1]}
       IN spreadInto(IF at = {} THEN Append(parameters, kv)
                     ELSE [i \in 1..Len(parameters) |->
                             IF i \in at THEN kv ELSE parameters[i]],
                     Tail(more))

\* peek(skipAhead), lines 38-43
peek_NoLowerBound(ps, skipAhead) ==
  LET at == ps.index + skipAhead
  IN IF at <= Len(ps.stream) - 1
     THEN (IF at >= 0 THEN ps.stream[at + 1] ELSE Undefined)
     ELSE NullToken

peek(ps, skipAhead) ==
  LET at == ps.index + skipAhead
  IN IF at <= Len(ps.stream) - 1 /\ at >= 0 THEN ps.stream[at + 1] ELSE NullToken

\* this.token.stream[i], undefined past the end
streamAt(ps, i) ==
  IF i >= 0 /\ i <= Len(ps.stream) - 1 THEN ps.stream[i + 1] ELSE Undefined

\* advance() and consume(), lines 54-55: the cursor moves on; consumed(ps) is
\* the token consume() returns
advanceCursor(ps) == [ps EXCEPT !.index = @ + 1]
consumed(ps) == streamAt(ps, ps.index)

\* newSemanticToken, tokens.js, with the fields pushToken is given
newSemanticToken(token, type, id, parameters) ==
  [type |-> type, value |-> token.value, start |-> token.start,
   length |-> token.length, id |-> id, parameters |-> parameters]

\* pushToken({...token, type}) and pushToken(token), line 56
pushToken(ps, token, type) ==
  [ps EXCEPT !.tokens = Append(@, newSemanticToken(token, type, << >>, << >>))]

\* pushToken({...this.consume(), type}) and pushToken(this.consume())
pushConsumedAs(ps, type) == advanceCursor(pushToken(ps, consumed(ps), type))
pushConsumed(ps) == pushConsumedAs(ps, consumed(ps).type)

\* pushError, line 57
pushError(ps, from, length) ==
  [ps EXCEPT !.errors = Append(@, [start |-> from, length |-> length])]

\* a TypeError leaves the method and every caller; a loop that no longer
\* changes the state never ends
throw(ps) == [ps EXCEPT !.outcome = "throw"]
hang(ps)  == [ps EXCEPT !.outcome = "hang"]
running(ps) == ps.outcome = "running"

\* getLastTokenEnd(), lines 45-48
getLastTokenEnd(ps) ==
  LET last == ps.tokens[Len(ps.tokens)] IN last.start + last.length

\* the test methods, lines 67-177
isAssignment(ps) ==
  /\ peek(ps, 0) # NullToken
  /\ peek(ps, 0).type = LexicalTokenType.Identifier
  /\ peek(ps, 1) # NullToken
  /\ peek(ps, 1).type = LexicalTokenType.Operator
  /\ peek(ps, 1).value = "="

isSequence(ps) ==
  /\ peek(ps, 0) # NullToken
  /\ \/ peek(ps, 0).type = LexicalTokenType.Identifier
     \/ test({"(", "["}, peek(ps, 0).value)

isComment(ps) ==
  peek(ps, 0) # NullToken /\ peek(ps, 0).type = LexicalTokenType.Comment

isNumber(ps) ==
  peek(ps, 0) # NullToken /\ peek(ps, 0).type = LexicalTokenType.Number

isHz(ps) ==
  /\ peek(ps, 0) # NullToken
  /\ peek(ps, 0).type = LexicalTokenType.Hz
  /\ peek(ps, 1) # NullToken
  /\ peek(ps, 1).type = LexicalTokenType.HzUnit

\* lines 93-104: the two regular expressions are tested on the token objects,
\* not on their values
isChoice(ps) ==
  /\ peek(ps, 0) # NullToken
  /\ peek(ps, 0).value = "|"
  /\ peek(ps, 0 - 1) # NullToken
  /\ \/ peek(ps, 0 - 1).type = LexicalTokenType.Identifier
     \/ test({")", "]"}, ObjectString)
  /\ peek(ps, 1) # NullToken
  /\ \/ peek(ps, 1).type = LexicalTokenType.Identifier
     \/ test({"(", "["}, ObjectString)

isChoiceParameter(ps) ==
  /\ peek(ps, 0) # NullToken
  /\ peek(ps, 0).value = "("
  /\ peek(ps, 1) # NullToken
  /\ peek(ps, 1).type = LexicalTokenType.Number
  /\ peek(ps, 2) # NullToken
  /\ peek(ps, 2).value = ")"

isChainOperator(ps) ==
  /\ peek(ps, 0) # NullToken
  /\ peek(ps, 0).type = LexicalTokenType.Operator
  /\ peek(ps, 0).value = "."
  /\ peek(ps, 0 - 1) # NullToken
  /\ \/ test({")", "]"}, peek(ps, 0 - 1).value)
     \/ peek(ps, 0 - 1).type = LexicalTokenType.Identifier
  /\ peek(ps, 1) # NullToken
  /\ peek(ps, 1).type = LexicalTokenType.Identifier
  /\ isFn(peek(ps, 1).value)

\* lines 131-154, called with a token under the cursor
isRepetitionOperator(ps) ==
  \/ /\ peek(ps, 0).type = LexicalTokenType.Operator
     /\ peek(ps, 0).value = "*"
     /\ peek(ps, 1) # NullToken
     /\ peek(ps, 1).type = LexicalTokenType.Number
     /\ peek(ps, 0 - 1) # NullToken
     /\ \/ test({")", "]"}, peek(ps, 0 - 1).value)
        \/ peek(ps, 0 - 1).type = LexicalTokenType.Identifier
  \/ /\ peek(ps, 0).type = LexicalTokenType.Number
     /\ peek(ps, 1) # NullToken
     /\ peek(ps, 1).type = LexicalTokenType.Operator
     /\ peek(ps, 1).value = "*"
     /\ peek(ps, 2) # NullToken
     /\ \/ test({"(", "["}, peek(ps, 2).value)
        \/ /\ peek(ps, 1).type = LexicalTokenType.Identifier
           /\ ~isFn(peek(ps, 1).value)

hasFnParameters(ps, fnName) ==
  /\ peek(ps, 0) # NullToken
  /\ peek(ps, 0).value = "("
  /\ peek(ps, 1) # NullToken
  /\ isFnParameter(fnName, peek(ps, 1).value)

hasQueryParameters(ps) ==
  /\ peek(ps, 0 - 1) # NullToken
  /\ peek(ps, 0 - 1).type = LexicalTokenType.Identifier
  /\ isSoundLiteral(peek(ps, 0 - 1).value)
  /\ hasFnParameters(ps, "_soundFn")

\* parseEndOfStatement(), lines 186-197
parseEndOfStatement_ThisTokenOnly(ps) ==
  IF peek(ps, 0) = NullToken THEN ps
  ELSE IF peek(ps, 0).type = LexicalTokenType.Comment THEN pushConsumed(ps)
  ELSE pushError(ps, peek(ps, 0).start, peek(ps, 0).length)

parseEndOfStatement(ps) ==
  IF peek(ps, 0) = NullToken THEN ps
  ELSE IF peek(ps, 0).type = LexicalTokenType.Comment THEN pushConsumed(ps)
  ELSE LET endToken == ps.stream[Len(ps.stream)]
           end == endToken.start + endToken.length
       IN pushError(ps, peek(ps, 0).start, end - peek(ps, 0).start)

\* parseComment(), lines 199-202
parseComment(ps) ==
  IF running(ps) /\ isComment(ps) THEN pushConsumed(ps) ELSE ps

\* parseErrorUntilEndOfParamScope(), lines 234-243
RECURSIVE skipToEndOfParamScope(_)
skipToEndOfParamScope(ps) ==
  IF peek(ps, 0) # NullToken /\ ~test({")", ","}, peek(ps, 0).value)
  THEN skipToEndOfParamScope(advanceCursor(ps))
  ELSE ps

parseErrorUntilEndOfParamScope(ps) ==
  LET from == peek(ps, 0).start
      errorTo(past) ==
        pushError(past, from,
                  peek(past, 0 - 1).start + peek(past, 0 - 1).length - from)
      pastComma(skipped) ==
        IF peek(skipped, 0) = NullToken THEN throw(skipped)
        ELSE IF test({","}, peek(skipped, 0).value)
        THEN errorTo(advanceCursor(skipped))
        ELSE errorTo(skipped)
  IN pastComma(skipToEndOfParamScope(ps))

\* line 288: the argument tokens up to the next comma or closing bracket
RECURSIVE argsAt(_)
argsAt(ps) ==
  IF peek(ps, 0) # NullToken /\ ~test({",", ")"}, peek(ps, 0).value)
  THEN <<peek(ps, 0)>> \o argsAt(advanceCursor(ps))
  ELSE << >>

RECURSIVE pushTokens(_, _)
pushTokens(ps, tokens) ==
  IF tokens = << >> THEN ps
  ELSE pushTokens(pushToken(ps, Head(tokens), Head(tokens).type), Tail(tokens))

\* lines 266-267 and 299-300: the parameter delimiter, if there is one
popParamDelimiter(ps) ==
  IF peek(ps, 0) = NullToken THEN throw(ps)
  ELSE IF test({","}, peek(ps, 0).value)
  THEN pushConsumedAs(ps, SemanticTokenType.FnParamDelimiter)
  ELSE ps

\* parseFnParameters(fnName), lines 245-307; the object it returns is left in
\* ps.parameters
RECURSIVE paramLoop(_, _, _)
paramLoop(ps, fnName, parameters) ==
  IF ~running(ps) THEN ps
  ELSE IF ~(peek(ps, 0) # NullToken /\ ~test({")"}, peek(ps, 0).value))
  THEN [pushConsumedAs(ps, SemanticTokenType.FnBracket) EXCEPT !.parameters = parameters]
  ELSE IF ~isFnParameter(fnName, peek(ps, 0).value)
  THEN paramLoop(parseErrorUntilEndOfParamScope(ps), fnName, parameters)
  ELSE IF isFnFlagParameter(fnName, peek(ps, 0).value)
  THEN paramLoop(popParamDelimiter(pushConsumedAs(ps, SemanticTokenType.FnParameter)),
                 fnName,
                 spreadInto(parameters, translateFnArgs(fnName, peek(ps, 0).value, << >>)))
  ELSE IF peek(ps, 1) # NullToken /\ ~test({":"}, peek(ps, 1).value)
  THEN paramLoop(parseErrorUntilEndOfParamScope(ps), fnName, parameters)
  ELSE IF peek(ps, 2) # NullToken
          /\ ~isValidFnArg(fnName, peek(ps, 0).value, peek(ps, 2))
  THEN paramLoop(parseErrorUntilEndOfParamScope(ps), fnName, parameters)
  ELSE LET paramName == streamAt(ps, ps.index)
           kvDelimiter == streamAt(ps, ps.index + 1)
           keyValue(afterKv, args) ==
             paramLoop(
               popParamDelimiter(
                 pushTokens(
                   pushToken(pushToken([afterKv EXCEPT !.index = @ + Len(args)],
                                       paramName, SemanticTokenType.FnParameter),
                             kvDelimiter, SemanticTokenType.FnParamKvDelimiter),
                   args)),
               fnName,
               spreadInto(parameters, translateFnArgs(fnName, paramName.value, args)))
           withArgs(afterKv) == keyValue(afterKv, argsAt(afterKv))
       IN withArgs(advanceCursor(advanceCursor(ps)))

parseFnParameters(ps, fnName) ==
  paramLoop(pushConsumedAs(ps, SemanticTokenType.FnBracket), fnName, << >>)

\* parseFn(), lines 320-337, and parseFnChain(), lines 309-318
RECURSIVE parseFn(_)
parseFn(ps) ==
  LET fnToken == consumed(ps)
      chained(pushed) ==
        IF isChainOperator(pushed)
        THEN parseFn(pushConsumedAs(pushed, SemanticTokenType.ChainingOp))
        ELSE pushed
      withParameters(params) ==
        IF ~running(params) THEN params
        ELSE chained([params EXCEPT !.tokens =
                        Append(@, newSemanticToken(fnToken, SemanticTokenType.Fn,
                                                   << >>, params.parameters))])
      named(after) ==
        withParameters(IF hasFnParameters(after, fnToken.value)
                       THEN parseFnParameters(after, fnToken.value)
                       ELSE [after EXCEPT !.parameters = << >>])
  IN named(advanceCursor(ps))

parseFnChain(ps) == parseFn(pushConsumedAs(ps, SemanticTokenType.ChainingOp))

\* lines 359-368: the id of a sound literal, its value (the identifiers here
\* have no white space to replace) and the key-value pairs of the parameters in
\* the order of the keys of the object
soundLiteralId(value, parameters) == <<value>> \o parameters

\* parseIdentifier(), lines 339-378
parseIdentifier(ps) ==
  IF isVariable(peek(ps, 0).value)
  THEN pushConsumedAs(ps, SemanticTokenType.Variable)
  ELSE IF isSoundLiteral(peek(ps, 0).value)
  THEN LET soundLiteral == consumed(ps)
           withQuery(params) ==
             IF ~running(params) THEN params
             ELSE [params EXCEPT !.tokens =
                     Append(@, newSemanticToken(soundLiteral,
                                                SemanticTokenType.SoundLiteral,
                                                soundLiteralId(soundLiteral.value,
                                                               params.parameters),
                                                params.parameters))]
           literal(after) ==
             withQuery(IF hasQueryParameters(after)
                       THEN parseFnParameters(after, "_soundFn")
                       ELSE [after EXCEPT !.parameters = << >>])
       IN literal(advanceCursor(ps))
  ELSE ps

\* this.parseRepetitionOperator(), line 429: the class has no such method
parseRepetitionOperator(ps) == throw(ps)

\* parseSequence(), lines 404-442, and parseChoice(), lines 380-402.
\* ps.returned tells the return of lines 431-432 from the end of the loop.
RECURSIVE parseSequence(_)
RECURSIVE parseChoice(_)
RECURSIVE stepLoop(_)
stepLoop(ps) ==
  IF ~running(ps) THEN ps
  ELSE IF ~(peek(ps, 0) # NullToken /\ ~test({")", "]"}, peek(ps, 0).value))
  THEN ps
  ELSE IF peek(ps, 0).type = LexicalTokenType.Identifier
  THEN LET identified(after) == IF after = ps THEN hang(ps) ELSE stepLoop(after)
       IN identified(parseIdentifier(ps))
  ELSE IF isSequence(ps) THEN stepLoop(parseSequence(ps))
  ELSE IF isChoice(ps) THEN stepLoop(parseChoice(ps))
  ELSE IF isChainOperator(ps) THEN stepLoop(parseFnChain(ps))
  ELSE IF isRepetitionOperator(ps) THEN stepLoop(parseRepetitionOperator(ps))
  ELSE [parseEndOfStatement(ps) EXCEPT !.returned = TRUE]

parseSequence(ps) ==
  LET rightBracket(stepped) ==
        IF ~running(stepped) THEN stepped
        ELSE IF stepped.returned THEN [stepped EXCEPT !.returned = FALSE]
        ELSE IF peek(stepped, 0) # NullToken /\ test({")"}, peek(stepped, 0).value)
        THEN pushConsumedAs(stepped, SemanticTokenType.SequenceBracket)
        ELSE IF peek(stepped, 0) # NullToken /\ test({"]"}, peek(stepped, 0).value)
        THEN pushConsumedAs(stepped, SemanticTokenType.BeatDivBracket)
        ELSE stepped
  IN rightBracket(stepLoop(IF test({"("}, peek(ps, 0).value)
                           THEN pushConsumedAs(ps, SemanticTokenType.SequenceBracket)
                           ELSE IF test({"["}, peek(ps, 0).value)
                           THEN pushConsumedAs(ps, SemanticTokenType.BeatDivBracket)
                           ELSE ps))

parseChoice(ps) ==
  IF ~(running(ps) /\ peek(ps, 0) # NullToken /\ isChoice(ps)) THEN ps
  ELSE LET operand(param) ==
             IF isSequence(param) THEN parseChoice(parseSequence(param))
             ELSE parseEndOfStatement(param)
           choiceParameter(op) ==
             IF isChoiceParameter(op)
             THEN operand(pushConsumedAs(
                            pushConsumed(
                              pushConsumedAs(op, SemanticTokenType.FnBracket)),
                            SemanticTokenType.FnBracket))
             ELSE operand(op)
       IN choiceParameter(pushConsumedAs(ps, SemanticTokenType.ChoiceOp))

\* parseAssignment(), lines 204-232
parseAssignment(ps) ==
  LET from == peek(ps, 0).start
      endOfFn(fn) == IF running(fn) THEN parseEndOfStatement(fn) ELSE fn
      assigned(decl) ==
        IF isNumber(decl) THEN parseEndOfStatement(pushConsumed(decl))
        ELSE IF isHz(decl) THEN parseEndOfStatement(pushConsumed(pushConsumed(decl)))
        ELSE IF peek(decl, 0) # NullToken /\ isFn(peek(decl, 0).value)
        THEN endOfFn(parseFn(decl))
        ELSE IF isSequence(decl) THEN parseComment(parseSequence(decl))
        ELSE pushError(decl, from, getLastTokenEnd(decl) - from)
  IN assigned(pushConsumedAs(pushConsumedAs(ps, SemanticTokenType.VariableDecl),
                             SemanticTokenType.AssignmentOp))

\* reset(), lines 32-36: the result starts from the errors of the lexical pass
reset(stream, lexErrors) ==
  [stream |-> stream, lexErrors |-> lexErrors, index |-> 0, tokens |-> << >>,
   errors |-> lexErrors, outcome |-> "running", parameters |-> << >>,
   returned |-> FALSE]

\* analyze(tokens, blockKey, blockIndex), lines 447-460: the parser when the
\* call is over, "returned" with this.result, or not returned
analyze(stream, lexErrors) ==
  LET result(done) ==
        [stream |-> done.stream, lexErrors |-> lexErrors, index |-> done.index,
         tokens |-> done.tokens, errors |-> done.errors,
         outcome |-> IF running(done) THEN "returned" ELSE done.outcome]
      statement(ps) ==
        IF isAssignment(ps) THEN parseAssignment(ps)
        ELSE IF isSequence(ps) THEN parseSequence(ps)
        ELSE parseEndOfStatement(ps)
  IN result(statement(reset(stream, lexErrors)))


\* the most tokens of a statement, and the most parameters of a call
MaxStreamLen == 4
MaxParams == 3

\* the lexemes of the statements
StatementLexemes ==
  {L.Kick, L.X, L.Reverb, L.Assign, L.Star, L.Bar, L.Dot, L.Open, L.Close, L.OpenDiv,
   L.CloseDiv, L.Four, L.Comment}

\* the lexical pass balances the brackets (line 411): open is the brackets
\* that are open at lexeme i, the innermost first
RECURSIVE nested(_, _, _)
nested(lexemes, i, open) ==
  IF i > Len(lexemes) THEN open = << >>
  ELSE IF lexemes[i] \in {L.Open, L.OpenDiv}
  THEN nested(lexemes, i + 1, <<lexemes[i]>> \o open)
  ELSE IF lexemes[i] \in {L.Close, L.CloseDiv}
  THEN /\ open # << >>
       /\ Head(open) = (IF lexemes[i] = L.Close THEN L.Open ELSE L.OpenDiv)
       /\ nested(lexemes, i + 1, Tail(open))
  ELSE nested(lexemes, i + 1, open)

balanced(lexemes) == nested(lexemes, 1, << >>)

\* a comment runs to the end of the block
commentLast(lexemes) ==
  \A i \in 1..(Len(lexemes) - 1) : lexemes[i] # L.Comment

StatementStreams ==
  UNION {{l \in [1..n -> StatementLexemes] : balanced(l) /\ commentLast(l)} :
           n \in 0..MaxStreamLen}

\* the errors of the lexical pass: none, or one
LexErrors == {<< >>, <<[start |-> 0, length |-> 1]>>}

\* one parameter as it can be written: a flag, a key with its value, a name
\* the function does not have, a key without delimiter or without value, a
\* value of the wrong type
ParamForms ==
  {<<L.Loop>>, <<L.Pitch, L.Colon, L.One>>, <<L.Wet, L.Colon, L.One>>, <<L.Foo>>,
   <<L.Foo, L.Colon, L.One>>, <<L.Pitch, L.One>>, <<L.Pitch>>, <<L.Pitch, L.Colon, L.Kick>>}

\* the parameters of a sound literal written well
QueryForms == {<<L.Loop>>, <<L.Pitch, L.Colon, L.One>>, <<L.Pitch, L.Colon, L.Four>>}

ListsUpTo(forms, n) == UNION {[1..k -> forms] : k \in 0..n}

RECURSIVE joined(_)
joined(params) ==
  IF params = << >> THEN << >>
  ELSE IF Len(params) = 1 THEN params[1]
  ELSE params[1] \o <<L.Comma>> \o joined(Tail(params))

call(head, params) == head \o <<L.Open>> \o joined(params) \o <<L.Close>>

\* `kick(...)` and `x = reverb(...)` with one parameter or more
CallStreams ==
  {call(head, params) :
     head \in {<<L.Kick>>, <<L.X, L.Assign, L.Reverb>>},
     params \in ListsUpTo(ParamForms, MaxParams) \ {<< >>}}

\* two occurrences of the sound literal kick in one statement, each with its
\* parameters
occurrence(params) == IF params = << >> THEN <<L.Kick>> ELSE call(<<L.Kick>>, params)

LiteralStreams ==
  {occurrence(first) \o occurrence(second) :
     first \in ListsUpTo(QueryForms, MaxParams),
     second \in ListsUpTo(QueryForms, MaxParams)}

\* analyze is called on the tokens of a block. reset() replaces all the state
\* of the parser, so the first call shows what every call does.
Analyze(lexemes, lexErrors) ==
  /\ parser' = analyze(tokensOf(lexemes), lexErrors)
  /\ UNCHANGED <<symVars, astVars, schedVars>>

AnalyzeStatement ==
  /\ parser.outcome = "new"
  /\ \E lexemes \in StatementStreams, lexErrors \in LexErrors :
       Analyze(lexemes, lexErrors)

AnalyzeCall ==
  /\ parser.outcome = "new"
  /\ \E lexemes \in CallStreams : Analyze(lexemes, << >>)

AnalyzeLiterals ==
  /\ parser.outcome = "new"
  /\ \E lexemes \in LiteralStreams : Analyze(lexemes, << >>)

SpecParse == Init /\ [][AnalyzeStatement]_vars
SpecCalls == Init /\ [][AnalyzeCall]_vars
SpecLiterals == Init /\ [][AnalyzeLiterals]_vars

\* analyze on a block of any of the three kinds
AnalyzeNext ==
  \/ AnalyzeStatement
  \/ AnalyzeCall
  \/ AnalyzeLiterals

SpecAnalyze == Init /\ [][AnalyzeNext]_vars

\* token streams as analyze accepts them, whatever the lexical pass promises:
\* any sequence of the lexemes of a call, brackets balanced or not
CallLexemes ==
  {L.Kick, L.Open, L.Close, L.Loop, L.Pitch, L.Colon, L.Comma, L.One}

AnyStreams == UNION {[1..n -> CallLexemes] : n \in 0..MaxStreamLen}

AnalyzeAnyStream ==
  /\ parser.outcome = "new"
  /\ \E lexemes \in AnyStreams : Analyze(lexemes, << >>)

AnyStreamNext ==
  \/ AnalyzeStatement
  \/ AnalyzeCall
  \/ AnalyzeLiterals
  \/ AnalyzeAnyStream

SpecAnyStream == Init /\ [][AnyStreamNext]_vars
----------------------------------------------------------------------------
(* FirstPassParser: claims *)

\* the semantic tokens of the result that have the place of a lexical token
emittedAs(token) ==
  {j \in 1..Len(parser.tokens) :
     /\ parser.tokens[j].start = token.start
     /\ parser.tokens[j].length = token.length}

endOf(token) == token.start + token.length

\* C13: analyze returns its result for every token stream of a block; no
\* exception leaves it (and no endless loop keeps it from returning).
C13_AnalyzeAlwaysReturns ==
  parser.outcome \in {"new", "returned"}

\* C14: when analyze returns without an error, every lexical token of the
\* block is in the result as exactly one semantic token of the same start
\* and length.
C14_AcceptedKeepsEveryToken ==
  (parser.outcome = "returned" /\ parser.errors = << >>)
    => \A i \in 1..Len(parser.stream) :
         Cardinality(emittedAs(parser.stream[i])) = 1

\* the call of a stream: its opening bracket, the function the parameters are
\* read for, and the parameters as the scopes between the commas
openAt == CHOOSE i \in 1..Len(parser.stream) :
            /\ parser.stream[i].value = "("
            /\ \A j \in 1..(i - 1) : parser.stream[j].value # "("

closeAt == Len(parser.stream)

calledFn ==
  IF isFn(parser.stream[openAt - 1].value) THEN parser.stream[openAt - 1].value
  ELSE "_soundFn"

scopeStarts ==
  {a \in (openAt + 1)..(closeAt - 1) :
     /\ parser.stream[a].value # ","
     /\ parser.stream[a - 1].value \in {"(", ","}}

scopeLast(a) ==
  CHOOSE b \in a..(closeAt - 1) :
    /\ \A k \in a..b : parser.stream[k].value # ","
    /\ parser.stream[b + 1].value \in {",", ")"}

\* where the scope of a parameter ends: with its comma, or before the bracket
scopeEnd(a) ==
  IF parser.stream[scopeLast(a) + 1].value = ","
  THEN endOf(parser.stream[scopeLast(a) + 1])
  ELSE endOf(parser.stream[scopeLast(a)])

\* a name the function does not have, a key without its delimiter, a value of
\* the wrong type
malformed(a) ==
  LET name == parser.stream[a].value
  IN \/ ~isFnParameter(calledFn, name)
     \/ /\ ~isFnFlagParameter(calledFn, name)
        /\ \/ scopeLast(a) = a
           \/ parser.stream[a + 1].value # ":"
           \/ /\ scopeLast(a) >= a + 2
              /\ ~isValidFnArg(calledFn, name, parser.stream[a + 2])

errorsOver(a) ==
  {j \in 1..Len(parser.errors) :
     /\ parser.errors[j].start = parser.stream[a].start
     /\ parser.errors[j].start + parser.errors[j].length = scopeEnd(a)}

\* what C15 says of a call: one error over each malformed parameter, from its
\* first token to the end of its scope, every token of the other parameters
\* emitted, and the closing bracket emitted as a bracket of the call
recovered ==
  /\ parser.outcome = "returned"
  /\ \A a \in scopeStarts :
       IF malformed(a)
       THEN Cardinality(errorsOver(a)) = 1
       ELSE \A k \in a..scopeLast(a) : Cardinality(emittedAs(parser.stream[k])) = 1
  /\ Len(parser.errors) = Cardinality({a \in scopeStarts : malformed(a)})
  /\ \E j \in emittedAs(parser.stream[closeAt]) :
       parser.tokens[j].type = SemanticTokenType.FnBracket

\* the bracket after a function opens its parameter list; the bracket after a
\* sound literal opens one when a parameter name follows it, and a sequence
\* otherwise
opensParameterList ==
  \/ isFn(parser.stream[openAt - 1].value)
  \/ isFnParameter("_soundFn", parser.stream[openAt + 1].value)

\* C15: in the parameter list of a call, each malformed parameter gives one
\* ErrorToken from its first token to the end of its scope, and the scan goes
\* on: the other parameters and the closing bracket are emitted.
C15_MalformedParameterIsOneError ==
  (parser.outcome # "new" /\ opensParameterList) => recovered

\* C16: for a stream whose first token is no IDENTIFIER, no '(' or '[' and no
\* comment, analyze returns no semantic token and adds one ErrorToken to the
\* errors of the lexical pass, from the start of the first token to the end of
\* the last.
C16_UnknownStartIsOneError ==
  ( /\ parser.outcome # "new"
    /\ parser.stream # << >>
    /\ parser.stream[1].type \notin {LexicalTokenType.Identifier,
                                     LexicalTokenType.Comment}
    /\ parser.stream[1].value \notin {"(", "["} )
  => /\ parser.outcome = "returned"
     /\ parser.tokens = << >>
     /\ parser.errors =
          Append(parser.lexErrors,
                 [start |-> parser.stream[1].start,
                  length |-> endOf(parser.stream[Len(parser.stream)])
                               - parser.stream[1].start])

\* a statement of several tokens that begins with a number has been analyzed
C16_Witness ==
  /\ parser.outcome = "returned"
  /\ Len(parser.stream) = MaxStreamLen
  /\ parser.stream[1].type = LexicalTokenType.Number
  /\ parser.stream[2].type = LexicalTokenType.Identifier
  /\ Len(parser.errors) = 1

\* the sound literals of the result
soundLiterals ==
  {j \in 1..Len(parser.tokens) :
     parser.tokens[j].type = SemanticTokenType.SoundLiteral}

\* C17: two sound literals of the same value and the same set of parameter
\* key-value pairs have the same id, in whatever order the parameters are
\* written.
C17_IdIgnoresParameterOrder ==
  \A i, j \in soundLiterals :
    ( /\ parser.tokens[i].value = parser.tokens[j].value
      /\ Range(parser.tokens[i].parameters) = Range(parser.tokens[j].parameters) )
    => parser.tokens[i].id = parser.tokens[j].id

\* statements that are one repetition: `kick * 4`, `4 * kick`, `( kick ) * 4`
RepetitionStatements ==
  {<<L.Kick, L.Star, L.Four>>, <<L.Four, L.Star, L.Kick>>,
   <<L.Open, L.Kick, L.Close, L.Star, L.Four>>, <<L.Four, L.Star, L.Open, L.Kick, L.Close>>}

\* C18: a repetition in either token order is consumed: the operator and the
\* number are emitted as semantic tokens, with the rest of the statement, and
\* no error is reported.
C18_RepetitionConsumed ==
  (parser.outcome # "new"
     /\ parser.stream \in {tokensOf(s) : s \in RepetitionStatements})
    => /\ parser.outcome = "returned"
       /\ parser.errors = parser.lexErrors
       /\ \A i \in 1..Len(parser.stream) :
            Cardinality(emittedAs(parser.stream[i])) = 1

\* C19: a '|' is emitted as a choice operator only between an IDENTIFIER or a
\* closing bracket before it and an IDENTIFIER or an opening bracket after it.
C19_ChoiceOnlyBetweenSequences ==
  \A i \in 1..Len(parser.stream) :
    (\E j \in emittedAs(parser.stream[i]) :
       parser.tokens[j].type = SemanticTokenType.ChoiceOp)
    => /\ i > 1
       /\ \/ parser.stream[i - 1].type = LexicalTokenType.Identifier
          \/ parser.stream[i - 1].value \in {")", "]"}
       /\ i < Len(parser.stream)
       /\ \/ parser.stream[i + 1].type = LexicalTokenType.Identifier
          \/ parser.stream[i + 1].value \in {"(", "["}

\* how far the tests of the parser look from the cursor: peek(-1) to peek(2)
LookAhead == {0 - 1, 0, 1, 2}

\* the cursor is never past the position one after the last token, every
\* token that was consumed was a token of the stream, and peek(k) is the token
\* at cursor + k when 0 <= cursor + k < length and null otherwise
accessesInBounds ==
  /\ parser.index <= Len(parser.stream)
  /\ \A j \in 1..Len(parser.tokens) : parser.tokens[j].start >= 0
  /\ \A k \in LookAhead :
       peek(parser, k) =
         IF 0 <= parser.index + k /\ parser.index + k < Len(parser.stream)
         THEN parser.stream[parser.index + k + 1]
         ELSE NullToken

\* the brackets of the stream analyze was given are balanced
balancedStream ==
  balanced([i \in 1..Len(parser.stream) |->
              Lexeme(parser.stream[i].type, parser.stream[i].value,
                     parser.stream[i].length)])

C30_AnalyzeTerminates == parser.outcome # "hang"

\* C32: the semantic tokens analyze returns are in source order: the start
\* offsets in the tokens array are strictly increasing, also for a function or
\* a sound literal with a parameter list, whose own token comes before the
\* tokens of its parameters.
C32_TokensInSourceOrder ==
  parser.outcome = "returned" =>
    \A j \in 1..(Len(parser.tokens) - 1) :
      parser.tokens[j].start < parser.tokens[j + 1].start
====
